---- MODULE Spec2Model ----
(***************************************************************************)
(* Model of leptonic's <Root> component (src/leptonic/src/root.rs).        *)
(*                                                                         *)
(* The state is what Root touches: the browser environment (window,        *)
(* document, navigator.userAgent, window.innerHeight), the document's      *)
(* on* handler slots, window.onresize, the window's resize listener list,  *)
(* the --leptonic-vh custom property, the tracing output, and one record   *)
(* per rendered Root (its signals, the contexts it provided, its view).    *)
(* Strings are sequences of one-character strings.                         *)
(*                                                                         *)
(* Root's body (lines 37-181) is one step and its view (lines 185-195) the *)
(* next; nothing else runs in between. A Root may be rendered under no     *)
(* Root or under any Root whose view has called children(). Roots are      *)
(* never unmounted. ThemeProvider, ToastRoot and ModalRoot are taken to    *)
(* render the children they are given. What use_window, use_document and   *)
(* the browser calls return is the environment's choice.                   *)
(***************************************************************************)
EXTENDS Integers, Sequences, FiniteSets, TLC

VARIABLES
    win,              \* use_window() is Some
    doc,              \* use_document() is Some
    user_agent,       \* navigator.userAgent(): [ok |-> BOOLEAN, str |-> string]
    inner_height,     \* window.innerHeight right now
    roots,            \* the rendered Root instances, in render order
    doc_on,           \* document.onkeydown/onclick/onmouseup/onscroll: owning Root or 0
    win_onresize,     \* window.onresize: owning Root or 0
    resize_listeners, \* window's resize listeners added by use_event_listener
    vh,               \* documentElement.style "--leptonic-vh" ("" when unset)
    vh_result,        \* what the most recent run of update_vh returned ("None": no run yet)
    vh_call,          \* a run of update_vh on its own: its inputs and what it did
    log,              \* the distinct warnings tracing::warn! has emitted
    events            \* how many events of each kind have been dispatched so far

vars == <<win, doc, user_agent, inner_height, roots, doc_on, win_onresize,
          resize_listeners, vh, vh_result, vh_call, log, events>>

----------------------------------------------------------------------------
(* Bounds *)

MaxRoots == 2

MaxEvents == 2

MaxUaLen == 5

UaChars == {"M", "m", "o", "b", "i"}

InnerHeights == {9, 1080}

SampleUserAgents == { <<"M", "o", "b", "i">> }

----------------------------------------------------------------------------
(* Strings *)

UpperCase == <<"A","B","C","D","E","F","G","H","I","J","K","L","M",
               "N","O","P","Q","R","S","T","U","V","W","X","Y","Z">>

LowerCase == <<"a","b","c","d","e","f","g","h","i","j","k","l","m",
               "n","o","p","q","r","s","t","u","v","w","x","y","z">>

LowerChar(c) ==
    IF \E i \in 1..26 : UpperCase[i] = c
    THEN LowerCase[CHOOSE i \in 1..26 : UpperCase[i] = c]
    ELSE c

to_lowercase(s) == [i \in 1..Len(s) |-> LowerChar(s[i])]

contains(s, pat) ==
    \E i \in 0..(Len(s) - Len(pat)) : \A j \in 1..Len(pat) : s[i + j] = pat[j]

DigitChar(d) == <<"0","1","2","3","4","5","6","7","8","9">>[d + 1]

RECURSIVE Display(_)
Display(n) ==
    IF n < 10 THEN <<DigitChar(n)>>
    ELSE Display(n \div 10) \o <<DigitChar(n % 10)>>

\* A faulty variant: the unit is left out of the formatted value.
FormatPx_no_unit(h) == Display(h)

\* format!("{inner_height}px")
FormatPx(h) == Display(h) \o <<"p", "x">>

----------------------------------------------------------------------------
(* Names *)

DocKinds == {"keydown", "click", "mouseup", "scroll"}

Kinds == DocKinds \cup {"resize"}

\* The contexts Root provides, in the order of its provide_context calls.
EventContexts ==
    <<"GlobalKeyboardEvent", "GlobalClickEvent", "GlobalMouseupEvent",
      "GlobalResizeEvent", "GlobalScrollEvent">>

\* The variants of update_vh's local Error enum.
VhErrors ==
    {"InnerHeightIndeterminable", "InnerHeightNotNumber",
     "DocumentIndeterminable", "SetPropertyFailed"}

\* What the browser answers to the calls of one update_vh run:
\* window.inner_height() (throws / a value that is no number / a number),
\* document.document_element() (Some or None), style.set_property() (Ok or Err).
Browser ==
    [inner_height : {"throws", "not_number", "number"},
     document_element : BOOLEAN,
     set_property : BOOLEAN]

\* The answers in which at most one call fails: one for each way a run of
\* update_vh can end.
SingleFailures ==
    {b \in Browser :
        \/ b.document_element /\ b.set_property
        \/ b.inner_height = "number" /\ (b.document_element \/ b.set_property)}

Range(s) == {s[i] : i \in 1..Len(s)}

UserAgents ==
    UNION {[1..n -> UaChars] : n \in 0..MaxUaLen}

NoAgent == [ok |-> FALSE, str |-> <<>>]

NoCall ==
    [called |-> FALSE,
     browser |-> [inner_height |-> "number", document_element |-> TRUE,
                  set_property |-> TRUE],
     old |-> <<>>, result |-> "None"]

----------------------------------------------------------------------------
(* update_vh *)

\* A faulty variant: the document element is looked up before the inner
\* height is read.
update_vh_document_first(w, d, h, b, old) ==
    IF ~w THEN [result |-> "Ok", vh |-> old]
    ELSE IF d /\ ~b.document_element
        THEN [result |-> "DocumentIndeterminable", vh |-> old]
    ELSE IF b.inner_height = "throws"
        THEN [result |-> "InnerHeightIndeterminable", vh |-> old]
    ELSE IF b.inner_height = "not_number"
        THEN [result |-> "InnerHeightNotNumber", vh |-> old]
    ELSE IF ~d THEN [result |-> "Ok", vh |-> old]
    ELSE IF ~b.set_property
        THEN [result |-> "SetPropertyFailed", vh |-> old]
    ELSE [result |-> "Ok", vh |-> FormatPx(h)]

\* The closure update_vh: the Result it returns and the value --leptonic-vh
\* has afterwards. w, d: use_window()/use_document() are Some; h: the inner
\* height; b: the browser's answers; old: the property before.
update_vh(w, d, h, b, old) ==
    IF ~w THEN [result |-> "Ok", vh |-> old]
    ELSE IF b.inner_height = "throws"
        THEN [result |-> "InnerHeightIndeterminable", vh |-> old]
    ELSE IF b.inner_height = "not_number"
        THEN [result |-> "InnerHeightNotNumber", vh |-> old]
    ELSE IF ~d THEN [result |-> "Ok", vh |-> old]
    ELSE IF ~b.document_element
        THEN [result |-> "DocumentIndeterminable", vh |-> old]
    ELSE IF ~b.set_property
        THEN [result |-> "SetPropertyFailed", vh |-> old]
    ELSE [result |-> "Ok", vh |-> FormatPx(h)]

\* A faulty variant: the error leaves the caller, as update_vh()? would.
HandleVhResult_propagate(res) ==
    [logged |-> res # "Ok", propagated |-> res # "Ok"]

\* if let Err(err) = update_vh() { tracing::warn!(..) }: an error is logged,
\* and never leaves the caller.
HandleVhResult(res) ==
    [logged |-> res # "Ok", propagated |-> FALSE]

\* The two tracing::warn! call sites for a failed update_vh: in Root's body
\* (line 151) and in the resize listener (line 157).
VhWarning(site) ==
    [root |-> 0, site |-> site, msg |-> "Could not calculate real viewport height"]

UsedTwiceWarning(r) ==
    [root |-> r, site |-> "Root", msg |-> "The <Root> component must only be used once!"]

----------------------------------------------------------------------------
(* Device classification *)

\* A faulty variant: the user agent is searched as it is, not lower-cased.
is_mobile_device_case_sensitive(w, ua) ==
    IF w
    THEN IF ua.ok
         THEN [ok |-> TRUE, val |-> contains(ua.str, <<"m", "o", "b", "i">>)]
         ELSE [ok |-> FALSE, val |-> FALSE]
    ELSE [ok |-> TRUE, val |-> FALSE]

\* The closure behind is_mobile_device, run with use_window() Some (w) or
\* None and the navigator answering ua; user_agent().unwrap() panics on Err.
is_mobile_device(w, ua) ==
    IF w
    THEN IF ua.ok
         THEN [ok |-> TRUE, val |-> contains(to_lowercase(ua.str),
                                             <<"m", "o", "b", "i">>)]
         ELSE [ok |-> FALSE, val |-> FALSE]
    ELSE [ok |-> TRUE, val |-> FALSE]

\* A faulty variant: the negation is missing.
is_desktop_device_unnegated(w, ua) ==
    LET m == is_mobile_device(w, ua)
    IN  [ok |-> m.ok, val |-> m.ok /\ m.val]

\* The closure behind is_desktop_device: !is_mobile_device.get()
is_desktop_device(w, ua) ==
    LET m == is_mobile_device(w, ua)
    IN  [ok |-> m.ok, val |-> m.ok /\ ~m.val]

\* The Leptonic context Root provides: two derived signals.
Leptonic ==
    [is_mobile_device |-> "is_mobile_device",
     is_desktop_device |-> "is_desktop_device"]

\* Signal::get on a derived signal runs its closure.
Get(signal) ==
    IF signal = "is_mobile_device"
    THEN is_mobile_device(win, user_agent)
    ELSE is_desktop_device(win, user_agent)

----------------------------------------------------------------------------
(* Contexts *)

\* use_context::<T>() in a component rendered under Root p (0: under none):
\* the nearest enclosing provider, or 0.
RECURSIVE use_context(_, _)
use_context(p, name) ==
    IF p = 0 THEN 0
    ELSE IF name \in Range(roots[p].provided) THEN p
    ELSE use_context(roots[p].parent, name)

\* Option::None, and the n-th event of kind k, as the value of a signal.
None == 0

Event(k, n) == n

EventCount ==
    events["keydown"] + events["click"] + events["mouseup"] + events["scroll"]
      + events["resize"]

\* A faulty variant: the test of the context is inverted.
RootWarns_inverted(p) == use_context(p, "Leptonic") = 0

\* if let Some(_root_context) = use_context::<Leptonic>() { warn!(..) }
RootWarns(p) == use_context(p, "Leptonic") # 0

\* A faulty variant: the Leptonic context is not provided.
ProvidedContexts_no_leptonic == EventContexts

\* Every provide_context call of Root's body, in order.
ProvidedContexts == Append(EventContexts, "Leptonic")

\* A faulty variant: a slot that already holds a handler is left alone.
set_on_once(owner, present, r) == IF present /\ owner = 0 THEN r ELSE owner

\* if let Some(doc) = doc.deref() { doc.set_on<k>(Some(closure)) }, and the
\* same for window.onresize: the slot then holds Root r's closure.
set_on(owner, present, r) == IF present THEN r ELSE owner

\* A faulty variant: only the first event is kept.
SetSignal_first_only(rs, r, k, e) ==
    IF rs[r].signals[k] = None THEN [rs EXCEPT ![r].signals[k] = e] ELSE rs

\* A faulty variant: the click closure sets the keyboard signal as well.
SetSignal_pasted(rs, r, k, e) ==
    IF k = "click"
    THEN [rs EXCEPT ![r].signals["click"] = e, ![r].signals["keydown"] = e]
    ELSE [rs EXCEPT ![r].signals[k] = e]

\* The closure move |e| set_g_<k>_event.set(Some(e)) of Root r.
SetSignal(rs, r, k, e) == [rs EXCEPT ![r].signals[k] = e]

Idle == \A r \in 1..Len(roots) : roots[r].view # "pending"

----------------------------------------------------------------------------
(* Root *)

Init ==
    /\ win \in BOOLEAN
    /\ doc \in BOOLEAN
    /\ user_agent \in
         IF win
         THEN {[ok |-> TRUE, str |-> s] : s \in SampleUserAgents}
         ELSE {NoAgent}
    /\ inner_height \in (IF win THEN InnerHeights ELSE {0})
    /\ roots = <<>>
    /\ doc_on = [k \in DocKinds |-> 0]
    /\ win_onresize = 0
    /\ resize_listeners = <<>>
    /\ vh = <<>>
    /\ vh_result = "None"
    /\ vh_call = NoCall
    /\ log = {}
    /\ events = [k \in Kinds |-> 0]

\* Root's body, lines 37-181, rendered under Root p (0: under no Root).
RootBody(p, b) ==
    /\ Idle
    /\ Len(roots) < MaxRoots
    /\ p = 0 \/ (p \in 1..Len(roots) /\ roots[p].view = "rendered")
    /\ LET r == Len(roots) + 1
           warns == RootWarns(p)
           res == update_vh(win, doc, inner_height, b, vh)
           h == HandleVhResult(res.result)
       IN  /\ doc_on' = [k \in DocKinds |-> set_on(doc_on[k], doc, r)]
           /\ win_onresize' = set_on(win_onresize, win, r)
           /\ vh' = res.vh
           /\ vh_result' = res.result
           /\ log' = log \cup (IF warns THEN {UsedTwiceWarning(r)} ELSE {})
                         \cup (IF h.logged THEN {VhWarning("Root")} ELSE {})
           /\ resize_listeners' =
                 IF win /\ ~h.propagated
                 THEN Append(resize_listeners, r) ELSE resize_listeners
           /\ roots' = Append(roots,
                 [parent |-> p,
                  signals |-> [k \in Kinds |-> None],
                  handlers |-> (IF doc THEN DocKinds ELSE {})
                                  \cup (IF win THEN {"resize"} ELSE {}),
                  provided |-> IF h.propagated THEN EventContexts
                               ELSE ProvidedContexts,
                  leptonic |-> Leptonic,
                  view |-> IF h.propagated THEN "aborted" ELSE "pending",
                  inside |-> <<>>])
    /\ UNCHANGED <<win, doc, user_agent, inner_height, events, vh_call>>

\* Root's view, lines 185-195: children() is called inside
\* ThemeProvider > ToastRoot > ModalRoot > Box.
RootView(r) ==
    /\ r \in 1..Len(roots)
    /\ roots[r].view = "pending"
    /\ roots' = [roots EXCEPT ![r].view = "rendered",
                              ![r].inside = <<"ThemeProvider", "ToastRoot",
                                              "ModalRoot", "Box">>]
    /\ UNCHANGED <<win, doc, user_agent, inner_height, doc_on, win_onresize,
                   resize_listeners, vh, vh_result, vh_call, log, events>>

----------------------------------------------------------------------------
(* Events *)

\* A keydown, click, mouseup or scroll event reaches the document: the
\* closure in document.on<k> sets its Root's signal to Some(e).
DocumentEvent(k) ==
    /\ doc
    /\ Idle
    /\ EventCount < MaxEvents
    /\ events' = [events EXCEPT ![k] = @ + 1]
    /\ roots' = IF doc_on[k] = 0 THEN roots
                ELSE SetSignal(roots, doc_on[k], k, Event(k, events[k] + 1))
    /\ UNCHANGED <<win, doc, user_agent, inner_height, doc_on, win_onresize,
                   resize_listeners, vh, vh_result, vh_call, log>>

\* The resize listeners run in the order they were added; each runs update_vh.
\* The result: the property, each listener's Result, oldest listener first.
\* The browser is in one state during one dispatch: every run gets the same
\* answers b.
RECURSIVE RunListeners(_, _, _, _)
RunListeners(n, h, b, old) ==
    IF n = 0 THEN [vh |-> old, results |-> <<>>]
    ELSE LET before == RunListeners(n - 1, h, b, old)
             res == update_vh(win, doc, h, b, before.vh)
         IN  [vh |-> res.vh, results |-> Append(before.results, res.result)]

\* The window is resized to inner height h: window.onresize sets its Root's
\* signal, then every resize listener runs.
WindowResize(h, b) ==
    /\ win
    /\ Idle
    /\ EventCount < MaxEvents
    /\ inner_height' = h
    /\ events' = [events EXCEPT !["resize"] = @ + 1]
    /\ roots' = IF win_onresize = 0 THEN roots
                ELSE SetSignal(roots, win_onresize, "resize",
                               Event("resize", events["resize"] + 1))
    /\ LET n == Len(resize_listeners)
           run == RunListeners(n, h, b, vh)
       IN  /\ vh' = run.vh
           /\ vh_result' = IF n = 0 THEN vh_result ELSE run.results[n]
           /\ log' = log \cup
                 {VhWarning("listener") :
                    i \in {j \in 1..n : HandleVhResult(run.results[j]).logged}}
           /\ resize_listeners' =
                 SelectSeq([i \in 1..n |->
                              IF HandleVhResult(run.results[i]).propagated
                              THEN 0 ELSE resize_listeners[i]],
                           LAMBDA x : x # 0)
    /\ UNCHANGED <<win, doc, user_agent, doc_on, win_onresize, vh_call>>

Next ==
    \/ \E p \in 0..MaxRoots, b \in SingleFailures : RootBody(p, b)
    \/ \E r \in 1..MaxRoots : RootView(r)
    \/ \E k \in DocKinds : DocumentEvent(k)
    \/ \E h \in InnerHeights, b \in SingleFailures : WindowResize(h, b)

Spec == Init /\ [][Next]_vars

----------------------------------------------------------------------------
(* Properties of Root, checked under Spec *)

AllContexts ==
    {"GlobalKeyboardEvent", "GlobalClickEvent", "GlobalMouseupEvent",
     "GlobalResizeEvent", "GlobalScrollEvent", "Leptonic"}

\* v is the decimal numeral of h, without leading zeros, followed by "px".
DigitValue(c) ==
    CASE c = "0" -> 0 [] c = "1" -> 1 [] c = "2" -> 2 [] c = "3" -> 3
      [] c = "4" -> 4 [] c = "5" -> 5 [] c = "6" -> 6 [] c = "7" -> 7
      [] c = "8" -> 8 [] c = "9" -> 9 [] OTHER -> -1

RECURSIVE NumeralValue(_, _)
NumeralValue(v, n) ==
    IF n = 0 THEN 0 ELSE 10 * NumeralValue(v, n - 1) + DigitValue(v[n])

IsPx(v, h) ==
    /\ Len(v) >= 3
    /\ v[Len(v) - 1] = "p" /\ v[Len(v)] = "x"
    /\ \A i \in 1..(Len(v) - 2) : DigitValue(v[i]) >= 0
    /\ Len(v) > 3 => v[1] # "0"
    /\ NumeralValue(v, Len(v) - 2) = h

\* C2, as stated: in a browser, rendering Root while a Leptonic context is
\* present leaves the registration state (the document's handlers,
\* window.onresize, the resize listeners) as the first render left it.
C2_SecondRenderRegistersNothing ==
    [][ (/\ win /\ doc
         /\ Len(roots') = Len(roots) + 1
         /\ RootWarns(roots'[Len(roots')].parent))
        => (/\ doc_on' = doc_on
            /\ win_onresize' = win_onresize
            /\ resize_listeners' = resize_listeners) ]_vars

\* C2, amended: the context check only warns. Every Root registers again:
\* each document handler slot and window.onresize holds one handler, that of
\* the Root rendered last; the window has one resize listener per Root; every
\* Root provides its own five event contexts; a Root rendered under a Root
\* has warned.
C2_EveryRenderRegistersAgain ==
    /\ \A k \in DocKinds : doc_on[k] = IF doc THEN Len(roots) ELSE 0
    /\ win_onresize = IF win THEN Len(roots) ELSE 0
    /\ resize_listeners = IF win THEN [i \in 1..Len(roots) |-> i] ELSE <<>>
    /\ \A r \in 1..Len(roots) :
          /\ AllContexts \ {"Leptonic"} \subseteq Range(roots[r].provided)
          /\ roots[r].parent # 0 => UsedTwiceWarning(r) \in log

C2_Witness ==
    /\ win /\ doc
    /\ Len(roots) = 2 /\ roots[2].parent = 1
    /\ doc_on["keydown"] = 2 /\ win_onresize = 2
    /\ resize_listeners = <<1, 2>>
    /\ UsedTwiceWarning(2) \in log

\* C3: every Root, whatever the environment and whether or not update_vh
\* failed, has provided the Leptonic context and the five event contexts by
\* the time its body is done, which is before its view calls children();
\* children are rendered inside ThemeProvider > ToastRoot > ModalRoot, and a
\* component under a rendered Root finds all six contexts.
C3_ContextsBeforeChildren ==
    \A r \in 1..Len(roots) :
        /\ roots[r].view \in {"pending", "rendered"}
        /\ AllContexts \subseteq Range(roots[r].provided)
        /\ roots[r].view = "pending" => roots[r].inside = <<>>
        /\ roots[r].view = "rendered" =>
              /\ Len(roots[r].inside) >= 3
              /\ SubSeq(roots[r].inside, 1, 3) =
                    <<"ThemeProvider", "ToastRoot", "ModalRoot">>
              /\ \A c \in AllContexts : use_context(r, c) # 0

C3_Witness ==
    /\ win /\ doc
    /\ Len(roots) = 1
    /\ roots[1].view = "rendered"
    /\ VhWarning("Root") \in log

\* C4: with one Root rendered in a browser, the five signals are None when
\* the Root's body is done, and every event sets the signal of its kind to
\* that event and leaves the other four as they are: each signal holds the
\* most recent event of its kind, or None if there was none.
C4_SignalsHoldLatestEvent ==
    /\ [](Len(roots) = 1 /\ roots[1].view = "pending"
            => \A k \in Kinds : roots[1].signals[k] = None)
    /\ [][ (win /\ doc /\ Len(roots) = 1 /\ Len(roots') = 1)
           => \A k \in Kinds :
                 roots'[1].signals[k] =
                    IF events'[k] > events[k] THEN Event(k, events'[k])
                    ELSE roots[1].signals[k] ]_vars

C4_Witness ==
    /\ win /\ doc /\ Len(roots) = 1
    /\ events["keydown"] = 2
    /\ roots[1].signals["keydown"] = Event("keydown", 2)
    /\ roots[1].signals["click"] = None

\* C5: in a browser, whenever the latest run of update_vh (in Root's body or
\* in the resize listener) succeeded, --leptonic-vh is the window's inner
\* height followed by "px".
C5_VhTracksInnerHeight ==
    (win /\ doc /\ vh_result = "Ok") => IsPx(vh, inner_height)

C5_Witness ==
    /\ win /\ doc /\ roots # <<>>
    /\ events["resize"] = 2
    /\ vh_result = "Ok"
    /\ inner_height = 1080
    /\ vh = <<"1", "0", "8", "0", "p", "x">>

\* C6: a failed update_vh is logged and goes no further. No Root's render is
\* aborted, every Root has all its contexts, every Root rendered with a
\* window keeps its resize listener, and a resize whose run of update_vh
\* succeeds sets --leptonic-vh, whatever failed before.
C6_VhFailureIsDiscarded ==
    /\ [](\A r \in 1..Len(roots) :
            /\ roots[r].view # "aborted"
            /\ AllContexts \subseteq Range(roots[r].provided)
            /\ win => \E i \in 1..Len(resize_listeners) : resize_listeners[i] = r)
    /\ [](vh_result \notin {"Ok", "None"} =>
            \E w \in log : w.msg = "Could not calculate real viewport height")
    /\ [][ (win /\ doc /\ roots # <<>> /\ events'["resize"] > events["resize"])
           => /\ Len(resize_listeners') = Len(roots)
              /\ vh_result' = "Ok" => IsPx(vh', inner_height') ]_vars

C6_Witness ==
    /\ win /\ doc /\ Len(roots) = 1
    /\ log = {VhWarning("Root"), VhWarning("listener")}
    /\ events["resize"] = 2
    /\ vh_result = "Ok"
    /\ IsPx(vh, inner_height)

\* C7: a Root has emitted the 'must only be used once' warning exactly when
\* it was rendered under a Root: the outermost Root never warns, every Root
\* beneath a rendered Root does.
C7_WarnsExactlyWhenNested ==
    \A r \in 1..Len(roots) :
        (UsedTwiceWarning(r) \in log) <=> (roots[r].parent # 0)

C7_Witness ==
    /\ Len(roots) = 2
    /\ roots[2].parent = 1
    /\ UsedTwiceWarning(2) \in log
    /\ UsedTwiceWarning(1) \notin log

\* C9: an event of one kind changes no signal of another kind in any Root,
\* changes neither device signal, renders no Root, and changes
\* --leptonic-vh only if it is a resize.
C9_EventFrame ==
    [][ \A k \in Kinds :
          events'[k] > events[k] =>
            /\ Len(roots') = Len(roots)
            /\ \A r \in 1..Len(roots) : \A j \in Kinds \ {k} :
                  roots'[r].signals[j] = roots[r].signals[j]
            /\ is_mobile_device(win', user_agent') = is_mobile_device(win, user_agent)
            /\ is_desktop_device(win', user_agent') = is_desktop_device(win, user_agent)
            /\ k # "resize" => vh' = vh ]_vars

C9_Witness ==
    /\ win /\ doc /\ Len(roots) = 1
    /\ roots[1].signals["click"] = Event("click", 1)
    /\ roots[1].signals["resize"] = Event("resize", 1)
    /\ roots[1].signals["keydown"] = None
    /\ vh # <<>>

----------------------------------------------------------------------------
(* Device classification over every user agent *)

InitDevice ==
    /\ win \in BOOLEAN
    /\ doc \in BOOLEAN
    /\ user_agent \in
         IF win
         THEN {[ok |-> TRUE, str |-> s] : s \in UserAgents} \cup {NoAgent}
         ELSE {NoAgent}
    /\ inner_height = (IF win THEN 1080 ELSE 0)
    /\ roots = <<>>
    /\ doc_on = [k \in DocKinds |-> 0]
    /\ win_onresize = 0
    /\ resize_listeners = <<>>
    /\ vh = <<>>
    /\ vh_result = "None"
    /\ vh_call = NoCall
    /\ log = {}
    /\ events = [k \in Kinds |-> 0]

AllFine ==
    [inner_height |-> "number", document_element |-> TRUE, set_property |-> TRUE]

NextDevice ==
    \/ \E p \in 0..MaxRoots : RootBody(p, AllFine)
    \/ \E r \in 1..MaxRoots : RootView(r)

SpecDevice == InitDevice /\ [][NextDevice]_vars

\* Some four consecutive characters of s are m, o, b, i in either case.
MobiAnyCase(s) ==
    \E i \in 0..(Len(s) - 4) :
        /\ s[i + 1] \in {"m", "M"}
        /\ s[i + 2] \in {"o", "O"}
        /\ s[i + 3] \in {"b", "B"}
        /\ s[i + 4] \in {"i", "I"}

\* C1: under every Root, in every environment, reading is_desktop_device
\* gives the negation of what reading is_mobile_device gives (and one read
\* panics only if the other does).
C1_DesktopIsNotMobile ==
    \A r \in 1..Len(roots) :
        "Leptonic" \in Range(roots[r].provided) =>
            LET m == Get(roots[r].leptonic.is_mobile_device)
                d == Get(roots[r].leptonic.is_desktop_device)
            IN  /\ d.ok = m.ok
                /\ m.ok => d.val = ~m.val

C1_Witness ==
    /\ win /\ user_agent.ok
    /\ Len(roots) = 2 /\ roots[2].view = "rendered"
    /\ Get(roots[2].leptonic.is_mobile_device) = [ok |-> TRUE, val |-> FALSE]
    /\ Get(roots[2].leptonic.is_desktop_device) = [ok |-> TRUE, val |-> TRUE]

\* C8: is_mobile_device reads true exactly when there is a window whose user
\* agent contains "mobi" in any mix of cases; with no window it reads false
\* and is_desktop_device reads true.
C8_MobileIffUserAgentHasMobi ==
    \A r \in 1..Len(roots) :
        LET m == Get(roots[r].leptonic.is_mobile_device)
            d == Get(roots[r].leptonic.is_desktop_device)
        IN  /\ (m.ok /\ m.val) <=>
                  (win /\ user_agent.ok /\ MobiAnyCase(user_agent.str))
            /\ ~win => /\ m = [ok |-> TRUE, val |-> FALSE]
                       /\ d = [ok |-> TRUE, val |-> TRUE]

C8_Witness ==
    /\ win
    /\ user_agent = [ok |-> TRUE, str |-> <<"o", "M", "o", "b", "i">>]
    /\ Len(roots) = 1 /\ roots[1].view = "rendered"
    /\ Get(roots[1].leptonic.is_mobile_device) = [ok |-> TRUE, val |-> TRUE]

----------------------------------------------------------------------------
(* update_vh on its own, over every input *)

InitVh ==
    /\ win \in BOOLEAN
    /\ doc \in BOOLEAN
    /\ user_agent \in
         IF win
         THEN {[ok |-> TRUE, str |-> s] : s \in SampleUserAgents}
         ELSE {NoAgent}
    /\ inner_height \in (IF win THEN InnerHeights ELSE {0})
    /\ roots = <<>>
    /\ doc_on = [k \in DocKinds |-> 0]
    /\ win_onresize = 0
    /\ resize_listeners = <<>>
    /\ vh \in {<<>>} \cup (IF win /\ doc THEN {FormatPx(h) : h \in InnerHeights} ELSE {})
    /\ vh_result = "None"
    /\ vh_call = NoCall
    /\ log = {}
    /\ events = [k \in Kinds |-> 0]

\* One run of the closure for the browser's answers b.
UpdateVhRun(b) ==
    /\ ~vh_call.called
    /\ LET res == update_vh(win, doc, inner_height, b, vh)
       IN  /\ vh' = res.vh
           /\ vh_result' = res.result
           /\ vh_call' = [called |-> TRUE, browser |-> b, old |-> vh,
                          result |-> res.result]
    /\ UNCHANGED <<win, doc, user_agent, inner_height, roots, doc_on,
                   win_onresize, resize_listeners, log, events>>

NextVh == \E b \in Browser : UpdateVhRun(b)

SpecVh == InitVh /\ [][NextVh]_vars

\* C10, as stated: the four errors come in the order inner height unreadable,
\* inner height no number, no document element, set_property failed; with no
\* window, or with a window and no document, the run returns Ok and writes
\* nothing; a run that fails or writes nothing leaves --leptonic-vh alone.
C10_NoDocumentYieldsOk ==
    vh_call.called =>
        LET b == vh_call.browser
            res == vh_call.result
        IN  /\ res \in VhErrors \cup {"Ok"}
            /\ res = "InnerHeightIndeterminable" => b.inner_height = "throws"
            /\ res = "InnerHeightNotNumber" => b.inner_height = "not_number"
            /\ res = "DocumentIndeterminable" =>
                  b.inner_height = "number" /\ ~b.document_element
            /\ res = "SetPropertyFailed" =>
                  b.inner_height = "number" /\ b.document_element /\ ~b.set_property
            /\ (~win \/ (win /\ ~doc)) => (res = "Ok" /\ vh = vh_call.old)
            /\ res # "Ok" => vh = vh_call.old

\* C10, amended: as stated, except that with a window and no document the
\* run returns Ok only if the inner height was read as a number; the two
\* inner-height errors are returned before the document is looked at. Each
\* error is returned exactly in its case, and --leptonic-vh changes only in
\* the one case where everything succeeded.
C10_ErrorsInOrder ==
    vh_call.called =>
        LET b == vh_call.browser
            res == vh_call.result
        IN  /\ res \in VhErrors \cup {"Ok"}
            /\ res = "InnerHeightIndeterminable" <=>
                  (win /\ b.inner_height = "throws")
            /\ res = "InnerHeightNotNumber" <=>
                  (win /\ b.inner_height = "not_number")
            /\ res = "DocumentIndeterminable" <=>
                  (win /\ b.inner_height = "number" /\ doc /\ ~b.document_element)
            /\ res = "SetPropertyFailed" <=>
                  (win /\ b.inner_height = "number" /\ doc /\ b.document_element
                       /\ ~b.set_property)
            /\ ~win => (res = "Ok" /\ vh = vh_call.old)
            /\ (win /\ ~doc /\ b.inner_height = "number") =>
                  (res = "Ok" /\ vh = vh_call.old)
            /\ res # "Ok" => vh = vh_call.old
            /\ vh # vh_call.old =>
                  (res = "Ok" /\ win /\ doc /\ IsPx(vh, inner_height))

C10_Witness ==
    /\ vh_call.called
    /\ win /\ ~doc
    /\ vh_call.browser.inner_height = "throws"
    /\ ~vh_call.browser.document_element
    /\ vh_call.result = "InnerHeightIndeterminable"
    /\ vh = vh_call.old

====
